---- MODULE Spec2Model ----
(***************************************************************************)
(* Model of pkg/canary/comparator/comparator.go (loki-canary Comparator).  *)
(*                                                                         *)
(* Processes: the reconciliation loop (run), the caller of Stop(), a       *)
(* caller of Size(), and the detached goroutines the loop spawns           *)
(* (spotCheckEntries, metricTest, confirmMissing).  Time is counted in     *)
(* whole seconds; a timestamp is a natural number of seconds.              *)
(***************************************************************************)
EXTENDS Integers, Sequences, FiniteSets, TLC

\* ------------------------------------------------------------------ bounds
\* The wall clock runs from 0 to MaxTime.
MaxTime == 3
\* The select cases the loop services before only <-c.quit is left: values
\* taken from c.sent and c.recv and ticks of the two tickers, together.
MaxEvents == 4

\* ----------------------------------------------------------- configuration
\* Durations handed to NewComparator, in seconds.
maxWait == 1
spotCheckInterval == 1
spotCheckMax == 2
\* metricTestRagenDur / writeInterval when metricTestRange parses.
metricTestRange == 2
writeInterval == 1
\* The +/- 10 seconds of the backend queries.
QueryPad == 10
\* A nil slot of a backing array (timestamps are >= 0).
Nil == -1
\* The line "error querying loki" in the output of confirmMissing.
QueryError == -2

Times == 0..MaxTime

VARIABLES
    entries, ackdEntries, spotCheck, spotOld,
    spotCheckRunning, metricTestRunning,
    entMtx, spotMtx, metTestMtx,
    confirmAsync, metricTestRagenDur,
    now,
    lp, esTs, esLen, prMissing,
    spotTasks, metTasks, confirmTasks,
    totalEntries, outOfOrderEntries, wsMissingEntries, missingEntries,
    spotCheckMissing, unexpectedEntries, duplicateEntries, responseLatency,
    metricTestDeviation, confirmedLog,
    stopPc, szPc,
    hist, nEvents, lastDispatch

bufs == <<entries, ackdEntries, spotCheck, spotOld>>
flags == <<spotCheckRunning, metricTestRunning>>
locks == <<entMtx, spotMtx, metTestMtx>>
config == <<confirmAsync, metricTestRagenDur>>
loopv == <<lp, esTs, esLen, prMissing>>
tasks == <<spotTasks, metTasks, confirmTasks>>
recvCounters == <<outOfOrderEntries, unexpectedEntries, duplicateEntries, responseLatency>>
counters == <<totalEntries, wsMissingEntries, missingEntries, spotCheckMissing,
              metricTestDeviation, confirmedLog>>
env == <<stopPc, szPc>>
logs == <<hist, nEvents, lastDispatch>>

vars == <<bufs, flags, locks, config, now, loopv, tasks, recvCounters, counters, env, logs>>

\* ------------------------------------------------------------ sequences
Range(s) == {s[i] : i \in 1..Len(s)}

RemoveAt(s, i) == SubSeq(s, 1, i - 1) \o SubSeq(s, i + 1, Len(s))

Distinct(s) == \A i, j \in 1..Len(s) : i # j => s[i] # s[j]

\* The values the loop has taken from c.sent and c.recv, in the order it
\* took them: hist holds <<"sent", ts>> and <<"recv", ts>>.  nEvents counts
\* these and the ticks serviced; lastDispatch is what the latest tick did
\* with its background job: "spot-started", "spot-skipped",
\* "metric-started", "metric-skipped" ("none" before the first tick).
Of(h, kind) == SelectSeq(h, LAMBDA ev : ev[1] = kind)
Stamps(h) == [i \in 1..Len(h) |-> h[i][2]]
SentLog == Stamps(Of(hist, "sent"))
RecvLog == Stamps(Of(hist, "recv"))

\* time.Time.Before
Before(a, b) == a < b

\* ------------------------------------------------------- entryReceived
\* Mutant of IsOutOfOrder: the test is off by one position.
IsOutOfOrderPastSecond(i) == i > 2

\* "If this isn't the first item in the list we received it out of order":
\* i is the 1-based position of the match in c.entries.
IsOutOfOrder(i) == i # 1

\* Mutant of ReceiveLoop: the output index is advanced only for an element
\* that had to be moved (k++ inside "if i != k"), so unmoved elements are cut.
RECURSIVE ReceiveLoopCutsUnmoved(_, _, _, _)
ReceiveLoopCutsUnmoved(ents, ts, i, st) ==
    IF i > Len(ents) THEN st
    ELSE IF ents[i] = ts
         THEN ReceiveLoopCutsUnmoved(ents, ts, i + 1,
                  [st EXCEPT !.matched = TRUE,
                             !.ooo = @ + (IF i # 1 THEN 1 ELSE 0),
                             !.obs = @ + 1,
                             !.ackd = Append(@, ents[i])])
         ELSE ReceiveLoopCutsUnmoved(ents, ts, i + 1,
                  IF i # Len(st.kept) + 1
                  THEN [st EXCEPT !.kept = Append(@, ents[i])]
                  ELSE st)

\* The scan over c.entries: every element equal to ts is dropped from the
\* buffer and appended to c.ackdEntries, the others are compacted in order.
RECURSIVE ReceiveLoop(_, _, _, _)
ReceiveLoop(ents, ts, i, st) ==
    IF i > Len(ents) THEN st
    ELSE IF ents[i] = ts
         THEN ReceiveLoop(ents, ts, i + 1,
                  [st EXCEPT !.matched = TRUE,
                             !.ooo = @ + (IF IsOutOfOrder(i) THEN 1 ELSE 0),
                             !.obs = @ + 1,
                             !.ackd = Append(@, ents[i])])
         ELSE ReceiveLoop(ents, ts, i + 1, [st EXCEPT !.kept = Append(@, ents[i])])

ReceiveScan(ents, ackd, ts) ==
    ReceiveLoop(ents, ts, 1,
        [kept |-> <<>>, ackd |-> ackd, matched |-> FALSE, ooo |-> 0, obs |-> 0])

\* Mutant of IsDuplicate: the search runs over c.entries, which holds no
\* equal element when nothing matched.
IsDuplicateInPending(ackd, ts) == \E i \in 1..Len(entries) : entries[i] = ts

\* The search of c.ackdEntries when nothing in c.entries matched.
IsDuplicate(ackd, ts) == \E i \in 1..Len(ackd) : ackd[i] = ts

\* --------------------------------------------------------- pruneEntries
\* Mutant of IsStale: not After instead of Before.
IsStaleAtBoundary(e, t) == e <= t - maxWait

\* e.Before(time.Now().Add(-c.maxWait))
IsStale(e, t) == Before(e, t - maxWait)

\* Mutant of PruneLoop: the output index is advanced for a stale entry too
\* (k++ after the if), so stale entries stay in the buffer.
RECURSIVE PruneLoopKeepsStale(_, _, _, _)
PruneLoopKeepsStale(ents, t, i, st) ==
    IF i > Len(ents) THEN st
    ELSE IF IsStale(ents[i], t)
         THEN PruneLoopKeepsStale(ents, t, i + 1,
                  [st EXCEPT !.missing = Append(@, ents[i]), !.kept = Append(@, ents[i])])
         ELSE PruneLoopKeepsStale(ents, t, i + 1, [st EXCEPT !.kept = Append(@, ents[i])])

\* The scan over c.entries at clock reading t: [kept, missing].
RECURSIVE PruneLoop(_, _, _, _)
PruneLoop(ents, t, i, st) ==
    IF i > Len(ents) THEN st
    ELSE IF IsStale(ents[i], t)
         THEN PruneLoop(ents, t, i + 1, [st EXCEPT !.missing = Append(@, ents[i])])
         ELSE PruneLoop(ents, t, i + 1, [st EXCEPT !.kept = Append(@, ents[i])])

PruneScan(ents, t) == PruneLoop(ents, t, 1, [kept |-> <<>>, missing |-> <<>>])

\* The second scan, over c.ackdEntries.
RECURSIVE PruneAckd(_, _, _)
PruneAckd(ackd, t, i) ==
    IF i > Len(ackd) THEN <<>>
    ELSE IF IsStale(ackd[i], t)
         THEN PruneAckd(ackd, t, i + 1)
         ELSE <<ackd[i]>> \o PruneAckd(ackd, t, i + 1)

\* ------------------------------------------------------- confirmMissing
\* start and end of the one ranged query of a batch.
ConfirmStart(missing) == missing[1] - QueryPad

\* Mutant of ConfirmEnd: end is taken from the first element, as start is.
ConfirmEndFromFirst(missing) == missing[1] + QueryPad

ConfirmEnd(missing) == missing[Len(missing)] + QueryPad

\* The range of the rdr.Query call made for a batch.
ConfirmQuery(missing) == [start |-> ConfirmStart(missing), end |-> ConfirmEnd(missing)]

\* What rdr.Query(start, end) can return: an error, or the timestamps the
\* backend holds in the range, which are timestamps of entries written.
QueryResults(start, end) ==
    {[err |-> TRUE, recvd |-> {}]}
        \cup {[err |-> FALSE, recvd |-> S] :
                  S \in SUBSET {t \in Range(SentLog) : start <= t /\ t <= end}}

\* The inner loop over recvd for one presumed-missing entry m.
FoundIn(m, recvd) == \E r \in recvd : m = r

\* Mutant of StillMissing: the entries found in the result are not dropped.
StillMissingKeepsFound(missing, recvd, i) == SubSeq(missing, i, Len(missing))

\* The compaction of missing: the entries the query did not return.
RECURSIVE StillMissing(_, _, _)
StillMissing(missing, recvd, i) ==
    IF i > Len(missing) THEN <<>>
    ELSE IF FoundIn(missing[i], recvd)
         THEN StillMissing(missing, recvd, i + 1)
         ELSE <<missing[i]>> \o StillMissing(missing, recvd, i + 1)

\* ----------------------------------------------------- spotCheckEntries
\* e.Before(currTime.Add(-c.spotCheckMax))
SpotExpired(e, currTime) == Before(e, currTime - spotCheckMax)

RECURSIVE SpotEvict(_, _, _)
SpotEvict(sc, currTime, i) ==
    IF i > Len(sc) THEN <<>>
    ELSE IF SpotExpired(sc[i], currTime)
         THEN SpotEvict(sc, currTime, i + 1)
         ELSE <<sc[i]>> \o SpotEvict(sc, currTime, i + 1)

\* start and end of the query for one sampled entry.
SpotStart(sce) == sce - QueryPad
SpotEnd(sce) == SpotStart(sce) + QueryPad

\* The range of the rdr.Query call made for the sampled entry sce.
SpotQuery(sce) == [start |-> SpotStart(sce), end |-> SpotEnd(sce)]

\* ------------------------------------------------------------ entrySent
\* "If this entry equals or exceeds the spot check interval from the last
\* entry in the spot check array, add it."
FarEnough(ts, last) == ts - last >= spotCheckInterval

\* entrySent reads c.spotCheck before it takes spotMtx.  While a spot check
\* is inside its critical section the read races with the compaction: each
\* word read (the length, one slot) yields the value from before the
\* compaction or the value after it.  A slot past the new length has been
\* set to nil.
SlotNow(j) == IF j <= Len(spotCheck) THEN spotCheck[j] ELSE Nil

LenViews == IF spotMtx = "spot" THEN {Len(spotOld), Len(spotCheck)} ELSE {Len(spotCheck)}

SlotViews(j) ==
    IF spotMtx = "spot" /\ j <= Len(spotOld) THEN {spotOld[j], SlotNow(j)} ELSE {SlotNow(j)}

\* ---------------------------------------------------------------- Size
Size == Len(entries)

\* ----------------------------------------------------------------- Init
\* The state NewComparator leaves: empty buffers, both running flags false,
\* the loop goroutine waiting in its select.  confirmAsync is the
\* constructor's argument; metricTestRagenDur is 0 when metricTestRange did
\* not parse.
Init ==
    /\ entries = <<>> /\ ackdEntries = <<>> /\ spotCheck = <<>> /\ spotOld = <<>>
    /\ spotCheckRunning = FALSE /\ metricTestRunning = FALSE
    /\ entMtx = "free" /\ spotMtx = "free" /\ metTestMtx = "free"
    /\ confirmAsync \in BOOLEAN
    /\ metricTestRagenDur \in {0, metricTestRange}
    /\ now = 0
    /\ lp = "select" /\ esTs = 0 /\ esLen = 0 /\ prMissing = <<>>
    /\ spotTasks = <<>> /\ metTasks = <<>> /\ confirmTasks = <<>>
    /\ totalEntries = 0 /\ outOfOrderEntries = 0 /\ wsMissingEntries = 0
    /\ missingEntries = 0 /\ spotCheckMissing = 0 /\ unexpectedEntries = 0
    /\ duplicateEntries = 0 /\ responseLatency = 0
    /\ metricTestDeviation = 0 /\ confirmedLog = <<>>
    /\ stopPc = "idle" /\ szPc = "idle"
    /\ hist = <<>> /\ nEvents = 0 /\ lastDispatch = "none"

\* A nil dereference in the loop goroutine ends the process.
Alive == lp # "panic"

\* ------------------------------------------------------------ the clock
Tick ==
    /\ Alive
    /\ now < MaxTime
    /\ now' = now + 1
    /\ UNCHANGED <<bufs, flags, locks, config, loopv, tasks, recvCounters, counters, env, logs>>

\* ------------------------------------------- run: case e := <-c.recv
EntryReceived(ts) ==
    /\ lp = "select"
    /\ nEvents < MaxEvents
    /\ nEvents' = nEvents + 1
    /\ entMtx = "free"
    /\ LET r == ReceiveScan(entries, ackdEntries, ts)
           dup == ~r.matched /\ IsDuplicate(ackdEntries, ts)
       IN  /\ entries' = r.kept
           /\ ackdEntries' = r.ackd
           /\ outOfOrderEntries' = outOfOrderEntries + r.ooo
           /\ responseLatency' = responseLatency + r.obs
           /\ duplicateEntries' = duplicateEntries + (IF dup THEN 1 ELSE 0)
           /\ unexpectedEntries' =
                  unexpectedEntries + (IF ~r.matched /\ ~dup THEN 1 ELSE 0)
    /\ hist' = Append(hist, <<"recv", ts>>)
    /\ UNCHANGED <<spotCheck, spotOld, flags, locks, config, now, loopv, tasks,
                   counters, stopPc, szPc, lastDispatch>>

\* ------------------------------------------- run: case e := <-c.sent
\* entMtx.Lock(); c.entries = append(c.entries, &time)
EntrySentLock(ts) ==
    /\ lp = "select"
    /\ nEvents < MaxEvents
    /\ nEvents' = nEvents + 1
    /\ entMtx = "free"
    /\ entMtx' = "loop"
    /\ entries' = Append(entries, ts)
    /\ esTs' = ts
    /\ lp' = "es_len"
    /\ hist' = Append(hist, <<"sent", ts>>)
    /\ UNCHANGED <<ackdEntries, spotCheck, spotOld, flags, spotMtx, metTestMtx, config,
                   now, esLen, prMissing, tasks, recvCounters, counters, stopPc, szPc,
                   lastDispatch>>

\* totalEntries.Inc() and the deferred entMtx.Unlock()
EntrySentReturn ==
    /\ totalEntries' = totalEntries + 1
    /\ entMtx' = "free"
    /\ lp' = "select"
    /\ esTs' = 0
    /\ esLen' = 0

\* len(c.spotCheck) == 0 ||  -- read without spotMtx
EntrySentReadLen ==
    /\ lp = "es_len"
    /\ \E n \in LenViews :
          /\ esLen' = n
          /\ lp' = IF n = 0 THEN "es_spot" ELSE "es_elem"
    /\ UNCHANGED <<bufs, flags, locks, config, now, esTs, prMissing, tasks,
                   recvCounters, counters, env, logs>>

\* time.Sub(*c.spotCheck[len(c.spotCheck)-1]) >= c.spotCheckInterval
\* -- read without spotMtx; a nil slot panics.
EntrySentReadLast ==
    /\ lp = "es_elem"
    /\ \E v \in SlotViews(esLen) :
          IF v = Nil
          THEN /\ lp' = "panic"
               /\ UNCHANGED <<totalEntries, entMtx, esTs, esLen>>
          ELSE IF FarEnough(esTs, v)
               THEN /\ lp' = "es_spot"
                    /\ UNCHANGED <<totalEntries, entMtx, esTs, esLen>>
               ELSE EntrySentReturn
    /\ UNCHANGED <<bufs, flags, spotMtx, metTestMtx, config, now, prMissing,
                   tasks, recvCounters, wsMissingEntries, missingEntries,
                   spotCheckMissing, metricTestDeviation, confirmedLog, env, logs>>

\* spotMtx.Lock(); c.spotCheck = append(c.spotCheck, &time); spotMtx.Unlock()
EntrySentAppend ==
    /\ lp = "es_spot"
    /\ spotMtx = "free"
    /\ spotCheck' = Append(spotCheck, esTs)
    /\ EntrySentReturn
    /\ UNCHANGED <<entries, ackdEntries, spotOld, flags, spotMtx, metTestMtx, config, now,
                   prMissing, tasks, recvCounters, wsMissingEntries,
                   missingEntries, spotCheckMissing, metricTestDeviation, confirmedLog,
                   env, logs>>

\* --------------------------------------------- run: case <-t.C (prune)
\* pruneEntries up to the hand-over of the stale entries: entMtx.Lock(), the
\* scan of c.entries, then go c.confirmMissing(missing) or the direct call,
\* whose query the loop then waits for with entMtx held.
PruneEntries ==
    /\ lp = "select"
    /\ nEvents < MaxEvents
    /\ nEvents' = nEvents + 1
    /\ entMtx = "free"
    /\ entMtx' = "loop"
    /\ LET p == PruneScan(entries, now)
       IN  /\ entries' = p.kept
           /\ wsMissingEntries' = wsMissingEntries + Len(p.missing)
           /\ IF p.missing = <<>>
              THEN /\ lp' = "pr_ackd"
                   /\ UNCHANGED <<prMissing, confirmTasks>>
              ELSE IF confirmAsync
                   THEN /\ lp' = "pr_ackd"
                        /\ confirmTasks' =
                               Append(confirmTasks, [pc |-> "start", missing |-> p.missing])
                        /\ UNCHANGED prMissing
                   ELSE /\ lp' = "pr_query"
                        /\ prMissing' = p.missing
                        /\ UNCHANGED confirmTasks
    /\ UNCHANGED <<ackdEntries, spotCheck, spotOld, flags, spotMtx, metTestMtx, config, now,
                   esTs, esLen, spotTasks, metTasks, recvCounters, totalEntries,
                   missingEntries, spotCheckMissing, metricTestDeviation, confirmedLog,
                   stopPc, szPc, hist, lastDispatch>>

\* Mutant of ConfirmOutcome: the error branch logs and does not return, so
\* the whole batch is compared with the empty result of the failed call.
ConfirmOutcomeCountsOnError(missing, res) ==
    LET still == StillMissing(missing, res.recvd, 1)
        logged == IF res.err THEN <<QueryError>> \o still ELSE still
    IN  /\ missingEntries' = missingEntries + Len(still)
        /\ confirmedLog' = confirmedLog \o logged

\* confirmMissing after rdr.Query returned res: on an error the error is
\* logged and nothing is counted; otherwise every entry of the batch that
\* res does not hold is logged (ErrEntryNotReceived) and counted in
\* missingEntries.  confirmedLog holds these lines: a timestamp for an
\* ErrEntryNotReceived line, QueryError for "error querying loki".
ConfirmOutcome(missing, res) ==
    IF res.err
    THEN /\ confirmedLog' = Append(confirmedLog, QueryError)
         /\ UNCHANGED missingEntries
    ELSE LET still == StillMissing(missing, res.recvd, 1)
         IN  /\ missingEntries' = missingEntries + Len(still)
             /\ confirmedLog' = confirmedLog \o still

\* The synchronous confirmMissing returns inside pruneEntries, its query
\* having returned res.
PruneConfirmReturned(res) ==
    /\ lp = "pr_query"
    /\ lp' = "pr_ackd"
    /\ ConfirmOutcome(prMissing, res)
    /\ prMissing' = <<>>
    /\ UNCHANGED <<bufs, flags, locks, config, now, esTs, esLen, tasks, recvCounters,
                   totalEntries, wsMissingEntries, spotCheckMissing, metricTestDeviation,
                   env, logs>>

PruneConfirmSync ==
    /\ lp = "pr_query"
    /\ \E res \in QueryResults(ConfirmStart(prMissing), ConfirmEnd(prMissing)) :
          PruneConfirmReturned(res)

\* The rest of pruneEntries: the scan of c.ackdEntries and the deferred
\* entMtx.Unlock().
PruneAcknowledged ==
    /\ lp = "pr_ackd"
    /\ ackdEntries' = PruneAckd(ackdEntries, now, 1)
    /\ entMtx' = "free"
    /\ lp' = "tick_spot"
    /\ UNCHANGED <<entries, spotCheck, spotOld, flags, spotMtx, metTestMtx, config, now,
                   esTs, esLen, prMissing, tasks, recvCounters, counters, env, logs>>

\* Mutant of SpotCheckMayStart: the running flag is not consulted.
SpotCheckAlwaysStarts == TRUE

\* "Only run one instance of spot check at a time."
SpotCheckMayStart == ~spotCheckRunning

\* spotMtx.Lock(); if !c.spotCheckRunning { ...; go c.spotCheckEntries(time.Now()) }
SpotCheckDispatch ==
    /\ lp = "tick_spot"
    /\ spotMtx = "free"
    /\ IF SpotCheckMayStart
       THEN /\ spotCheckRunning' = TRUE
            /\ spotTasks' = Append(spotTasks,
                                [pc |-> "start", currTime |-> now, cpy |-> <<>>, idx |-> 0])
       ELSE UNCHANGED <<spotCheckRunning, spotTasks>>
    /\ lastDispatch' = IF SpotCheckMayStart THEN "spot-started" ELSE "spot-skipped"
    /\ lp' = "select"
    /\ UNCHANGED <<bufs, metricTestRunning, locks, config, now, esTs, esLen, prMissing,
                   metTasks, confirmTasks, recvCounters, counters, env, hist, nEvents>>

\* ------------------------------------------ run: case <-mt.C (metric test)
\* Mutant of MetricTestMayStart: the running flag is not consulted.
MetricTestAlwaysStarts == TRUE

\* "Only run one intstance of metric tests at a time."
MetricTestMayStart == ~metricTestRunning

MetricTestDispatch ==
    /\ lp = "select"
    /\ nEvents < MaxEvents
    /\ nEvents' = nEvents + 1
    /\ metTestMtx = "free"
    /\ IF MetricTestMayStart
       THEN /\ metricTestRunning' = TRUE
            /\ metTasks' = Append(metTasks, [pc |-> "start"])
       ELSE UNCHANGED <<metricTestRunning, metTasks>>
    /\ lastDispatch' = IF MetricTestMayStart THEN "metric-started" ELSE "metric-skipped"
    /\ UNCHANGED <<bufs, spotCheckRunning, locks, config, now, loopv, spotTasks,
                   confirmTasks, recvCounters, counters, stopPc, szPc, hist>>

\* ------------------------------------------------- run: case <-c.quit
\* The loop returns; its deferred function stops the tickers and closes done.
LoopQuit ==
    /\ lp = "select"
    /\ stopPc = "waiting"
    /\ lp' = "exited"
    /\ UNCHANGED <<bufs, flags, locks, config, now, esTs, esLen, prMissing, tasks,
                   recvCounters, counters, env, logs>>

\* ------------------------------------------------- go c.metricTest()
\* What rdr.QueryCountOverTime can return: a count and whether it failed.
Counts == {0, metricTestRange}
CountResults == Counts \X BOOLEAN

\* expectedCount, in whole entries.
ExpectedCount == metricTestRagenDur \div writeInterval

SetTask(ts, i, t) == [ts EXCEPT ![i] = t]

\* if c.metricTestRagenDur == 0 { ...; return }, else the query is issued.
MetricTestStart(i) ==
    /\ Alive
    /\ metTasks[i].pc = "start"
    /\ metTasks' = SetTask(metTasks, i,
                       [pc |-> IF metricTestRagenDur = 0 THEN "defer" ELSE "query"])
    /\ UNCHANGED <<bufs, flags, locks, config, now, loopv, spotTasks, confirmTasks,
                   recvCounters, counters, env, logs>>

\* QueryCountOverTime returned res = <<actualCount, err # nil>>: an error is
\* logged, and in either case the gauge is set to expectedCount - actualCount.
MetricTestQueryReturned(i, res) ==
    /\ Alive
    /\ metTasks[i].pc = "query"
    /\ metricTestDeviation' = ExpectedCount - res[1]
    /\ metTasks' = SetTask(metTasks, i, [pc |-> "defer"])
    /\ UNCHANGED <<bufs, flags, locks, config, now, loopv, spotTasks, confirmTasks,
                   recvCounters, totalEntries, wsMissingEntries, missingEntries,
                   spotCheckMissing, confirmedLog, env, logs>>

MetricTestQueryReturn(i) == \E res \in CountResults : MetricTestQueryReturned(i, res)

\* The deferred function: metTestMtx.Lock(); metricTestRunning = false; Unlock()
MetricTestDefer(i) ==
    /\ Alive
    /\ metTasks[i].pc = "defer"
    /\ metTestMtx = "free"
    /\ metricTestRunning' = FALSE
    /\ metTasks' = RemoveAt(metTasks, i)
    /\ UNCHANGED <<bufs, spotCheckRunning, locks, config, now, loopv, spotTasks,
                   confirmTasks, recvCounters, counters, env, logs>>

\* ------------------------------------- go c.spotCheckEntries(time.Now())
\* A run that has only its deferred function left (its locals are dead).
SpotDone == [pc |-> "defer", currTime |-> 0, cpy |-> <<>>, idx |-> 0]

\* spotMtx.Lock(), the eviction of the entries older than spotCheckMax, and
\* the copy; the lock is still held.
SpotCheckCompact(i) ==
    /\ Alive
    /\ spotTasks[i].pc = "start"
    /\ spotMtx = "free"
    /\ spotMtx' = "spot"
    /\ spotOld' = spotCheck
    /\ spotCheck' = SpotEvict(spotCheck, spotTasks[i].currTime, 1)
    /\ spotTasks' = SetTask(spotTasks, i,
                        [spotTasks[i] EXCEPT !.pc = "copied", !.cpy = spotCheck', !.currTime = 0])
    /\ UNCHANGED <<entries, ackdEntries, flags, entMtx, metTestMtx, config, now, loopv,
                   metTasks, confirmTasks, recvCounters, counters, env, logs>>

\* Mutant of SpotCheckUnlock: the lock is not released before the queries.
SpotCheckQueriesLocked(i) ==
    /\ Alive
    /\ spotTasks[i].pc = "copied"
    /\ spotTasks' = SetTask(spotTasks, i,
                        IF spotTasks[i].cpy = <<>>
                        THEN [pc |-> "defer", currTime |-> 0, cpy |-> <<>>, idx |-> 0]
                        ELSE [spotTasks[i] EXCEPT !.pc = "query", !.idx = 1])
    /\ UNCHANGED <<bufs, flags, locks, config, now, loopv, metTasks, confirmTasks,
                   recvCounters, counters, env, logs>>

\* spotMtx.Unlock(); the query for the first copied entry is issued.
SpotCheckUnlock(i) ==
    /\ Alive
    /\ spotTasks[i].pc = "copied"
    /\ spotMtx' = "free"
    /\ spotOld' = <<>>
    /\ spotTasks' = SetTask(spotTasks, i,
                        IF spotTasks[i].cpy = <<>>
                        THEN SpotDone
                        ELSE [spotTasks[i] EXCEPT !.pc = "query", !.idx = 1])
    /\ UNCHANGED <<entries, ackdEntries, spotCheck, flags, entMtx, metTestMtx, config, now,
                   loopv, metTasks, confirmTasks, recvCounters, counters, env, logs>>

\* rdr.Query(start, end) returned for cpy[idx]: an error ends the run; an
\* entry the result does not hold is counted in spotCheckMissing.
SpotCheckQueryReturn(i) ==
    /\ Alive
    /\ spotTasks[i].pc = "query"
    /\ LET t == spotTasks[i]
           sce == t.cpy[t.idx]
       IN  \E res \in QueryResults(SpotStart(sce), SpotEnd(sce)) :
              IF res.err
              THEN /\ spotTasks' = SetTask(spotTasks, i, SpotDone)
                   /\ UNCHANGED spotCheckMissing
              ELSE /\ spotCheckMissing' =
                          spotCheckMissing + (IF FoundIn(sce, res.recvd) THEN 0 ELSE 1)
                   /\ spotTasks' = SetTask(spotTasks, i,
                          IF t.idx = Len(t.cpy) THEN SpotDone ELSE [t EXCEPT !.idx = t.idx + 1])
    /\ UNCHANGED <<bufs, flags, locks, config, now, loopv, metTasks, confirmTasks,
                   recvCounters, totalEntries, wsMissingEntries, missingEntries,
                   metricTestDeviation, confirmedLog, env, logs>>

\* The deferred function: spotMtx.Lock(); spotCheckRunning = false; Unlock()
SpotCheckDefer(i) ==
    /\ Alive
    /\ spotTasks[i].pc = "defer"
    /\ spotMtx = "free"
    /\ spotCheckRunning' = FALSE
    /\ spotTasks' = RemoveAt(spotTasks, i)
    /\ UNCHANGED <<bufs, metricTestRunning, locks, config, now, loopv, metTasks,
                   confirmTasks, recvCounters, counters, env, logs>>

\* --------------------------------------- go c.confirmMissing(missing)
\* The detached confirmMissing issues its query.
ConfirmIssue(i) ==
    /\ Alive
    /\ confirmTasks[i].pc = "start"
    /\ confirmTasks' = SetTask(confirmTasks, i, [confirmTasks[i] EXCEPT !.pc = "query"])
    /\ UNCHANGED <<bufs, flags, locks, config, now, loopv, spotTasks, metTasks,
                   recvCounters, counters, env, logs>>

\* The query returned res; the goroutine ends.
ConfirmReturned(i, res) ==
    /\ Alive
    /\ confirmTasks[i].pc = "query"
    /\ confirmTasks' = RemoveAt(confirmTasks, i)
    /\ ConfirmOutcome(confirmTasks[i].missing, res)
    /\ UNCHANGED <<bufs, flags, locks, config, now, loopv, spotTasks, metTasks,
                   recvCounters, totalEntries, wsMissingEntries, spotCheckMissing,
                   metricTestDeviation, env, logs>>

ConfirmReturn(i) ==
    /\ confirmTasks[i].pc = "query"
    /\ LET m == confirmTasks[i].missing
       IN  \E res \in QueryResults(ConfirmStart(m), ConfirmEnd(m)) : ConfirmReturned(i, res)

\* ----------------------------------------------------------------- Stop
\* if c.quit != nil { close(c.quit)
StopClose ==
    /\ Alive
    /\ stopPc = "idle"
    /\ stopPc' = "waiting"
    /\ UNCHANGED <<bufs, flags, locks, config, now, loopv, tasks, recvCounters, counters,
                   szPc, logs>>

\* Mutant of DoneClosed: Stop does not wait for done.
DoneNotAwaited == TRUE

\* <-c.done : done is closed by the loop's deferred function only.
DoneClosed == lp = "exited"

\* <-c.done; c.quit = nil }
StopReturn ==
    /\ Alive
    /\ stopPc = "waiting"
    /\ DoneClosed
    /\ stopPc' = "returned"
    /\ UNCHANGED <<bufs, flags, locks, config, now, loopv, tasks, recvCounters, counters,
                   szPc, logs>>

\* ----------------------------------------------------------------- Size
\* entMtx.Lock()
SizeLock ==
    /\ Alive
    /\ szPc = "idle"
    /\ entMtx = "free"
    /\ entMtx' = "size"
    /\ szPc' = "locked"
    /\ UNCHANGED <<bufs, flags, spotMtx, metTestMtx, config, now, loopv, tasks,
                   recvCounters, counters, stopPc, logs>>

\* Mutant of SizeReturn: Size returns without unlocking entMtx.
SizeKeepsLock ==
    /\ Alive
    /\ szPc = "locked"
    /\ szPc' = "idle"
    /\ UNCHANGED <<bufs, flags, locks, config, now, loopv, tasks,
                   recvCounters, counters, stopPc, logs>>

\* return len(c.entries), with the deferred entMtx.Unlock()
SizeReturn ==
    /\ Alive
    /\ szPc = "locked"
    /\ entMtx' = "free"
    /\ szPc' = "idle"
    /\ UNCHANGED <<bufs, flags, spotMtx, metTestMtx, config, now, loopv, tasks,
                   recvCounters, counters, stopPc, logs>>

\* ----------------------------------------------------------------- Next
\* The loop's handling of c.recv, c.sent and the prune ticker.
Handlers ==
    \/ \E ts \in Times : EntryReceived(ts)
    \/ \E ts \in 0..now : EntrySentLock(ts)
    \/ EntrySentReadLen
    \/ EntrySentReadLast
    \/ EntrySentAppend
    \/ PruneEntries
    \/ PruneConfirmSync
    \/ PruneAcknowledged
    \/ SpotCheckDispatch

\* The goroutines started by a prune tick.
PruneJobs ==
    \/ \E i \in 1..Len(spotTasks) : SpotCheckCompact(i)
    \/ \E i \in 1..Len(spotTasks) : SpotCheckUnlock(i)
    \/ \E i \in 1..Len(spotTasks) : SpotCheckQueryReturn(i)
    \/ \E i \in 1..Len(spotTasks) : SpotCheckDefer(i)
    \/ \E i \in 1..Len(confirmTasks) : ConfirmIssue(i)
    \/ \E i \in 1..Len(confirmTasks) : ConfirmReturn(i)

\* The goroutines started by a metric-test tick.
MetricJobs ==
    \/ \E i \in 1..Len(metTasks) : MetricTestStart(i)
    \/ \E i \in 1..Len(metTasks) : MetricTestQueryReturn(i)
    \/ \E i \in 1..Len(metTasks) : MetricTestDefer(i)

Stop ==
    \/ StopClose
    \/ LoopQuit
    \/ StopReturn

Next ==
    \/ Tick
    \/ Handlers
    \/ PruneJobs
    \/ MetricTestDispatch
    \/ MetricJobs
    \/ Stop
    \/ SizeLock
    \/ SizeReturn

\* The whole Comparator: the loop, its goroutines, and the callers of Stop
\* and Size.
Spec == Init /\ [][Next]_vars

\* The Comparator while nobody calls Stop or Size and the metric-test ticker
\* does not fire (so that metricTestRagenDur is never read).
InitBuffers == Init /\ metricTestRagenDur = metricTestRange

NextBuffers ==
    \/ Tick
    \/ Handlers
    \/ PruneJobs

SpecBuffers == InitBuffers /\ [][NextBuffers]_vars

\* The Comparator while nothing arrives on c.sent and c.recv and the prune
\* ticker does not fire (so that confirmAsync is never read).
InitMetric == Init /\ confirmAsync

NextMetric ==
    \/ Tick
    \/ MetricTestDispatch
    \/ MetricJobs
    \/ Stop
    \/ SizeLock
    \/ SizeReturn

SpecMetric == InitMetric /\ [][NextMetric]_vars

\* The steps of the spotCheckEntries goroutine.
SpotJobs ==
    \E i \in 1..Len(spotTasks) :
        SpotCheckCompact(i) \/ SpotCheckUnlock(i) \/ SpotCheckQueryReturn(i) \/ SpotCheckDefer(i)

\* The Comparator while nobody calls Stop or Size, with goroutines that are
\* scheduled and collaborator calls that return: a started spotCheckEntries
\* or metricTest goroutine that can take a step eventually takes one.
NextLive ==
    \/ Tick
    \/ Handlers
    \/ PruneJobs
    \/ MetricTestDispatch
    \/ MetricJobs

SpecLive == Init /\ [][NextLive]_vars /\ WF_vars(SpotJobs) /\ WF_vars(MetricJobs)

\* ======================================================== properties
\* Position of the first element of s equal to x.
IndexOf(s, x) == CHOOSE i \in 1..Len(s) : s[i] = x /\ \A j \in 1..(i - 1) : s[j] # x

\* How many of the first p loop inputs are of the given kind.
CountOf(kind, p) == Cardinality({q \in 1..p : hist[q][1] = kind})

\* Every observation so far arrived after its entry was sent, and the k-th
\* observation is of the k-th entry sent.
InOrder ==
    \A p \in 1..Len(hist) :
        hist[p][1] = "recv" =>
            LET k == CountOf("recv", p)
            IN  CountOf("sent", p) >= k /\ hist[p][2] = SentLog[k]

LoopIdle == lp \in {"select", "exited"}

\* C1: with distinct pending timestamps, entryReceived(t) for a t pending at
\* a position other than the first adds exactly 1 to the out-of-order
\* counter, removes exactly t from the Pending Buffer and keeps the other
\* entries in their order.
C1_OutOfOrderMatch ==
    [][\A t \in Times :
          (EntryReceived(t) /\ Distinct(entries) /\ \E i \in 2..Len(entries) : entries[i] = t)
              => /\ outOfOrderEntries' = outOfOrderEntries + 1
                 /\ entries' = RemoveAt(entries, IndexOf(entries, t))]_vars

\* sent(0), sent(1), sent(2), received(1): one out-of-order, Pending == [0, 2].
C1_Witness ==
    /\ hist = <<<<"sent", 0>>, <<"sent", 1>>, <<"sent", 2>>, <<"recv", 1>>>>
    /\ outOfOrderEntries = 1
    /\ entries = <<0, 2>>
    /\ lp = "select"

\* C2: when every observation arrives in submission order, after its entry
\* was sent, and nothing was evicted for staleness, the out-of-order counter
\* is 0, and once all entries were observed the Pending Buffer is empty and
\* every sent entry was matched.
C2_InOrderNeverOutOfOrder ==
    (InOrder /\ wsMissingEntries = 0)
        => /\ outOfOrderEntries = 0
           /\ (LoopIdle /\ Len(RecvLog) = Len(SentLog))
                  => (entries = <<>> /\ responseLatency = totalEntries)

\* C3: entryReceived(t) for a t that is not pending but is in the
\* Acknowledged Buffer adds exactly 1 to the duplicate counter and nothing to
\* the unexpected counter; entryReceived(t) for a pending t moves t from the
\* Pending to the Acknowledged Buffer.
C3_Duplicate ==
    [][\A t \in Times :
          EntryReceived(t) =>
              /\ (t \notin Range(entries) /\ t \in Range(ackdEntries))
                     => /\ duplicateEntries' = duplicateEntries + 1
                        /\ unexpectedEntries' = unexpectedEntries
              /\ t \in Range(entries)
                     => /\ t \notin Range(entries')
                        /\ t \in Range(ackdEntries')
                        /\ Len(ackdEntries') + Len(entries') = Len(ackdEntries) + Len(entries)]_vars

\* sent(0), received(0), received(0): one duplicate, nothing unexpected.
C3_Witness ==
    /\ hist = <<<<"sent", 0>>, <<"recv", 0>>, <<"recv", 0>>>>
    /\ duplicateEntries = 1
    /\ unexpectedEntries = 0
    /\ ackdEntries = <<0>>

\* C4: entryReceived(t) for a t in neither buffer adds exactly 1 to the
\* unexpected counter and changes neither the duplicate nor the out-of-order
\* counter nor either buffer.
C4_Unexpected ==
    [][\A t \in Times :
          (EntryReceived(t) /\ t \notin Range(entries) /\ t \notin Range(ackdEntries))
              => /\ unexpectedEntries' = unexpectedEntries + 1
                 /\ duplicateEntries' = duplicateEntries
                 /\ outOfOrderEntries' = outOfOrderEntries
                 /\ entries' = entries
                 /\ ackdEntries' = ackdEntries]_vars

\* sent(0), sent(1), received(1), received(2): 2 was never sent.
C4_Witness ==
    /\ hist = <<<<"sent", 0>>, <<"sent", 1>>, <<"recv", 1>>, <<"recv", 2>>>>
    /\ unexpectedEntries = 1
    /\ duplicateEntries = 0
    /\ entries = <<0>>
    /\ ackdEntries = <<1>>

Older(s, d) == SelectSeq(s, LAMBDA e : now - e > d)
NotOlder(s, d) == SelectSeq(s, LAMBDA e : now - e <= d)

\* The stale entries of a prune tick are handed to the Confirmer: to a new
\* detached confirmMissing, or to the one the loop runs itself.
HandedToConfirmer(batch) ==
    IF confirmAsync
    THEN confirmTasks' = Append(confirmTasks, [pc |-> "start", missing |-> batch])
    ELSE prMissing' = batch /\ lp' = "pr_query"

\* C5 as claimed: a prune tick at now removes every pending entry with
\* now - t0 >= maxWait, the boundary included.
C5_EvictsAtBoundary ==
    [][PruneEntries => entries' = SelectSeq(entries, LAMBDA e : now - e < maxWait)]_vars

\* C5 amended: a prune tick at now removes exactly the pending entries with
\* now - t0 > maxWait, counts each as channel-missing and hands them, in
\* order, to the Confirmer; the entries with now - t0 <= maxWait stay, in
\* their order.
C5_EvictsPastMaxWait ==
    [][PruneEntries =>
          /\ entries' = NotOlder(entries, maxWait)
          /\ wsMissingEntries' = wsMissingEntries + Len(Older(entries, maxWait))
          /\ Older(entries, maxWait) # <<>> => HandedToConfirmer(Older(entries, maxWait))]_vars

\* A prune tick at 2 with 0 and 1 pending: 0 is evicted and handed over, 1
\* (now - 1 == maxWait) stays.
C5_Witness ==
    /\ now = 2
    /\ lp = "pr_query"
    /\ prMissing = <<0>>
    /\ entries = <<1>>
    /\ wsMissingEntries = 1

\* How many elements of s equal x.
Count(s, x) == Cardinality({k \in 1..Len(s) : s[k] = x})

\* The ErrEntryNotReceived lines written by the step.
NewlyLogged == SubSeq(confirmedLog', Len(confirmedLog) + 1, Len(confirmedLog'))

\* A successful confirmation of batch against recvd counted and logged each
\* batch entry that recvd does not hold once, and no entry that recvd holds.
CountedAbsent(batch, recvd) ==
    /\ missingEntries' = missingEntries + Cardinality({k \in 1..Len(batch) : batch[k] \notin recvd})
    /\ \A t \in Times :
          Count(NewlyLogged, t) = IF t \in recvd THEN 0 ELSE Count(batch, t)

\* C6: when the Confirmer's query succeeds, the confirmed-missing counter
\* grows by exactly the number of batch entries absent from the result: an
\* entry the result holds is never counted, an entry it does not hold is
\* counted and logged exactly once (detached and synchronous confirmation).
C6_ConfirmedMissing ==
    [][/\ \A i \in 1..Len(confirmTasks) :
             confirmTasks[i].pc = "query" =>
                 LET m == confirmTasks[i].missing
                 IN  \A res \in QueryResults(ConfirmStart(m), ConfirmEnd(m)) :
                        (~res.err /\ ConfirmReturned(i, res)) => CountedAbsent(m, res.recvd)
       /\ lp = "pr_query" =>
             \A res \in QueryResults(ConfirmStart(prMissing), ConfirmEnd(prMissing)) :
                 (~res.err /\ PruneConfirmReturned(res)) => CountedAbsent(prMissing, res.recvd)]_vars

\* 0 and 1 were evicted at 3 and confirmed in one batch; the backend held 0
\* and not 1.
C6_Witness ==
    /\ SentLog = <<0, 1>>
    /\ wsMissingEntries = 2
    /\ missingEntries = 1
    /\ confirmedLog = <<1>>
    /\ confirmTasks = <<>>
    /\ lp # "pr_query"

\* C7: any two consecutive entries of the Spot-Check Buffer are at least the
\* sampling interval apart.
C7_SpotCheckSpacing ==
    \A i \in 1..(Len(spotCheck) - 1) : spotCheck[i + 1] - spotCheck[i] >= spotCheckInterval

\* C8: at most one metricTest run is in flight, and a rate-test tick that
\* fires while a run is in flight starts none (and so issues no further
\* QueryCountOverTime call).
C8_OneMetricTest ==
    /\ [](Len(metTasks) <= 1)
    /\ [][(MetricTestDispatch /\ metTasks # <<>>) => metTasks' = metTasks]_vars

\* A tick was skipped while the run's QueryCountOverTime call is in progress.
C8_Witness ==
    /\ lastDispatch = "metric-skipped"
    /\ Len(metTasks) = 1
    /\ metTasks[1].pc = "query"
    /\ metricTestRunning

\* C9: at most one spotCheckEntries run is in flight, and a prune tick that
\* fires while a run is in flight starts none.
C9_OneSpotCheck ==
    /\ [](Len(spotTasks) <= 1)
    /\ [][(SpotCheckDispatch /\ spotTasks # <<>>) => spotTasks' = spotTasks]_vars

\* A prune tick was skipped while the run is querying the backend.
C9_Witness ==
    /\ lastDispatch = "spot-skipped"
    /\ Len(spotTasks) = 1
    /\ spotTasks[1].pc = "query"
    /\ spotCheckRunning

\* C10: once Stop() has returned the loop has exited, and the Pending Buffer
\* (so the value of Size()) never changes again and no value is taken from
\* the sent or received channel.
C10_StopWaitsForLoop ==
    /\ [](stopPc = "returned" => lp = "exited")
    /\ [][stopPc = "returned" => (entries' = entries /\ Size' = Size /\ hist' = hist)]_vars

\* Stop() has returned with entries pending, inputs left to take and a
\* detached spot check still querying the backend.
C10_Witness ==
    /\ stopPc = "returned"
    /\ entries # <<>>
    /\ nEvents < MaxEvents
    /\ Len(spotTasks) = 1
    /\ spotTasks[1].pc = "query"

\* C11: the query a Spot Checker run issues for a sampled timestamp ts spans
\* [ts - 10s, ts + 10s].
C11_SpotQueryRange ==
    \A i \in 1..Len(spotTasks) :
        spotTasks[i].pc = "query" =>
            LET ts == spotTasks[i].cpy[spotTasks[i].idx]
            IN  SpotQuery(ts) = [start |-> ts - QueryPad, end |-> ts + QueryPad]

\* C12: a metricTest run whose QueryCountOverTime call returns an error
\* leaves the deviation gauge at the value it had before.
C12_GaugeKeptOnError ==
    [][\A i \in 1..Len(metTasks) : \A res \in CountResults :
          (res[2] /\ MetricTestQueryReturned(i, res))
              => metricTestDeviation' = metricTestDeviation]_vars

MinOf(s) == CHOOSE x \in Range(s) : \A y \in Range(s) : x <= y
MaxOf(s) == CHOOSE x \in Range(s) : \A y \in Range(s) : x >= y
NonDecreasing(s) == \A i \in 1..(Len(s) - 1) : s[i] <= s[i + 1]

\* The batches whose confirmation query is in progress, detached or not.
BatchesInQuery ==
    {confirmTasks[i].missing : i \in {j \in 1..Len(confirmTasks) : confirmTasks[j].pc = "query"}}
        \cup (IF lp = "pr_query" THEN {prMissing} ELSE {})

\* A detached confirmMissing is started with a non-empty batch, issues its
\* query once and ends when the query returns; the batch never changes.
ConfirmLifecycle ==
    \/ confirmTasks' = confirmTasks
    \/ /\ Len(confirmTasks') = Len(confirmTasks) + 1
       /\ SubSeq(confirmTasks', 1, Len(confirmTasks)) = confirmTasks
       /\ confirmTasks'[Len(confirmTasks')].pc = "start"
       /\ confirmTasks'[Len(confirmTasks')].missing # <<>>
    \/ \E i \in 1..Len(confirmTasks) :
          /\ confirmTasks[i].pc = "start"
          /\ confirmTasks' = SetTask(confirmTasks, i, [confirmTasks[i] EXCEPT !.pc = "query"])
    \/ \E i \in 1..Len(confirmTasks) :
          /\ confirmTasks[i].pc = "query"
          /\ confirmTasks' = RemoveAt(confirmTasks, i)

\* The synchronous confirmMissing is entered from pruneEntries only, with a
\* non-empty batch, and left when its one query returns.
ConfirmSyncLifecycle ==
    /\ (lp # "pr_query" /\ lp' = "pr_query") => (PruneEntries /\ prMissing' # <<>>)
    /\ lp = "pr_query" => (lp' = "pr_ackd" \/ (lp' = "pr_query" /\ prMissing' = prMissing))

C14_SpotStepUnderLock ==
    [][(EntrySentReadLen \/ EntrySentReadLast) => spotMtx # "spot"]_vars

\* The goroutine whose rdr.Query call is in progress holds a buffer lock:
\* the loop inside the synchronous confirmMissing (entMtx), or a
\* spotCheckEntries run (spotMtx, which only such a run holds as "spot").
LoopQueriesLocked == lp = "pr_query" /\ entMtx = "loop"
SpotQueriesLocked == \E i \in 1..Len(spotTasks) : spotTasks[i].pc = "query" /\ spotMtx = "spot"

\* C15 as claimed: in both confirmation modes, no goroutine has a backend
\* query in progress while it holds entMtx or spotMtx.
C15_NoQueryUnderLock == ~LoopQueriesLocked /\ ~SpotQueriesLocked

\* C15 amended: the detached jobs (spot check, rate test, detached
\* confirmation) never hold entMtx or spotMtx during a query -- entMtx is
\* held by the loop or a Size() caller only, spotMtx by no querying spot
\* check -- and the loop has a query in progress only in the synchronous
\* confirmation mode, where it holds entMtx throughout.
C15_DetachedQueriesHoldNoLock ==
    /\ entMtx \in {"free", "loop", "size"}
    /\ ~SpotQueriesLocked
    /\ confirmAsync => ~LoopQueriesLocked
    /\ lp = "pr_query" => (~confirmAsync /\ entMtx = "loop")

\* Detached confirmation and spot-check queries are in progress, neither
\* lock is held by their goroutines.
C15_Witness ==
    /\ confirmAsync
    /\ Len(confirmTasks) = 1 /\ confirmTasks[1].pc = "query"
    /\ Len(spotTasks) = 1 /\ spotTasks[1].pc = "query"
    /\ spotMtx = "free"

\* The loop, holding entMtx, is waiting for spotMtx in entrySent.
LoopWaitsForSpot == lp = "es_spot" /\ spotMtx = "spot"

\* Every lock that is held will be released: its holder can take its next
\* step, or is the loop waiting for spotMtx, whose holder can.
LocksReleasable ==
    /\ spotMtx = "spot" => \E i \in 1..Len(spotTasks) : ENABLED SpotCheckUnlock(i)
    /\ entMtx = "size" => ENABLED SizeReturn
    /\ entMtx = "loop" =>
           \/ LoopWaitsForSpot
           \/ ENABLED (EntrySentReadLen \/ EntrySentReadLast \/ EntrySentAppend
                           \/ PruneConfirmSync \/ PruneAcknowledged)

\* C16: the loop takes spotMtx with entMtx already held (entrySent) or with
\* entMtx not held by it (the spot-check dispatch); entMtx is requested by
\* the loop only when it holds no lock, and never by the holder of spotMtx;
\* and no reachable state is a deadlock.
C16_LockOrder ==
    /\ [](Alive => LocksReleasable)
    /\ [](lp = "es_spot" => entMtx = "loop")
    /\ [](lp = "tick_spot" => entMtx # "loop")
    /\ [](entMtx \in {"free", "loop", "size"})
    /\ [][(entMtx # "loop" /\ entMtx' = "loop") => lp = "select"]_vars

\* The loop holds entMtx in entrySent and waits for spotMtx, which a spot
\* check holds; a Size() call and a rate test are under way.
C16_Witness ==
    /\ LoopWaitsForSpot
    /\ entMtx = "loop"
    /\ metTasks # <<>>

\* What one step adds to the out-of-order, duplicate and unexpected counters
\* together.
Classified ==
    (outOfOrderEntries' - outOfOrderEntries) + (duplicateEntries' - duplicateEntries)
        + (unexpectedEntries' - unexpectedEntries)

\* C17: one entryReceived call adds at most 1 to the out-of-order, duplicate
\* and unexpected counters together, whatever the Pending Buffer holds, and
\* adds 0 only when the observation matches the first pending entry.
C17_OneClassification ==
    [][\A t \in Times :
          EntryReceived(t) =>
              /\ Classified <= 1
              /\ Classified = 0 => (entries # <<>> /\ entries[1] = t)]_vars

\* a is b with some elements left out.
RECURSIVE IsSubSeq(_, _)
IsSubSeq(a, b) ==
    IF a = <<>> THEN TRUE
    ELSE IF b = <<>> THEN FALSE
    ELSE IF a[1] = b[1] THEN IsSubSeq(Tail(a), Tail(b))
    ELSE IsSubSeq(a, Tail(b))

Without(s, t) == SelectSeq(s, LAMBDA e : e # t)

\* The step takes a value from c.sent or c.recv or services a prune tick.
LoopEvent ==
    \/ \E ts \in Times : EntrySentLock(ts)
    \/ \E t \in Times : EntryReceived(t)
    \/ PruneEntries

\* C18: the Pending Buffer is the sent entries, in send order, less the
\* matched and the evicted ones: a send appends its timestamp, an observation
\* of t removes exactly the entries equal to t, a prune tick removes exactly
\* the entries older than maxWait, and no other step changes the buffer; so
\* every sent entry is pending, matched or evicted, and never two of these.
C18_PendingExact ==
    /\ [](IsSubSeq(entries, SentLog))
    /\ [](Len(entries) + responseLatency + wsMissingEntries = Len(SentLog))
    /\ [][/\ \A ts \in Times : EntrySentLock(ts) => entries' = Append(entries, ts)
          /\ \A t \in Times : EntryReceived(t) => entries' = Without(entries, t)
          /\ PruneEntries => entries' = NotOlder(entries, maxWait)
          /\ entries' # entries => LoopEvent]_vars

\* sent(0), sent(1), sent(2) and a prune tick at 2: 0 was evicted from the
\* head, 1 and 2 were moved down.
C18_Witness ==
    /\ SentLog = <<0, 1, 2>>
    /\ now = 2
    /\ wsMissingEntries = 1
    /\ entries = <<1, 2>>
    /\ lp = "select"

\* The step starts a confirmation: a detached confirmMissing is spawned or
\* the loop enters the synchronous one.
ConfirmStarted ==
    \/ Len(confirmTasks') > Len(confirmTasks)
    \/ lp # "pr_query" /\ lp' = "pr_query"

\* C19: a confirmation whose query fails leaves the confirmed-missing
\* counter and the Pending Buffer as they were, logs the error only and
\* ends without starting another confirmation, and the loop goes on (to the
\* rest of pruneEntries in the synchronous mode); entries enter the Pending
\* Buffer only by being sent, and a confirmation is started only by a prune
\* tick, for exactly the entries that tick evicts.
C19_FailedConfirmDropsBatch ==
    [][/\ \A i \in 1..Len(confirmTasks) :
             confirmTasks[i].pc = "query" =>
                 LET m == confirmTasks[i].missing
                 IN  \A res \in QueryResults(ConfirmStart(m), ConfirmEnd(m)) :
                        (res.err /\ ConfirmReturned(i, res)) =>
                            /\ missingEntries' = missingEntries
                            /\ NewlyLogged = <<QueryError>>
                            /\ entries' = entries
                            /\ confirmTasks' = RemoveAt(confirmTasks, i)
                            /\ lp' = lp
       /\ lp = "pr_query" =>
             \A res \in QueryResults(ConfirmStart(prMissing), ConfirmEnd(prMissing)) :
                 (res.err /\ PruneConfirmReturned(res)) =>
                     /\ missingEntries' = missingEntries
                     /\ NewlyLogged = <<QueryError>>
                     /\ entries' = entries
                     /\ confirmTasks' = confirmTasks
                     /\ prMissing' = <<>>
                     /\ lp' = "pr_ackd"
       /\ Len(entries') > Len(entries) => \E ts \in Times : EntrySentLock(ts)
       /\ ConfirmStarted =>
             (PruneEntries /\ HandedToConfirmer(Older(entries, maxWait)))]_vars

\* The query for the evicted entry 0 failed: only the error was logged,
\* nothing is pending or being confirmed, and the loop is back in its
\* select with inputs left to take.
C19_Witness ==
    /\ SentLog = <<0>>
    /\ wsMissingEntries = 1
    /\ confirmedLog = <<QueryError>>
    /\ missingEntries = 0
    /\ entries = <<>>
    /\ confirmTasks = <<>>
    /\ lp = "select"
    /\ nEvents < MaxEvents

\* C20: a running flag that is set is eventually reset, on every exit path
\* of its job, so that a later tick can start a new run.
C20_RunFlagsReset ==
    /\ spotCheckRunning ~> ~spotCheckRunning
    /\ metricTestRunning ~> ~metricTestRunning

====
